---- MODULE Spec2Model ----
(***************************************************************************)
(* Content Generation Service (src/server.js).                             *)
(*                                                                         *)
(* POST /research creates a research_jobs record and starts                *)
(* generateContent as a detached background task.  The task reports a      *)
(* progress checkpoint, calls the text provider, extracts the JSON span of *)
(* the answer and stores it, for 6 main sections and 3 sections of each of *)
(* the 4 neighborhoods, then assembles the pages and writes the result.    *)
(*                                                                         *)
(* Node runs one callback to completion before the next one: an action of  *)
(* this module is one such callback, from the return of the awaited call   *)
(* to the next await.  Non-integer progress values are kept in sixths.     *)
(***************************************************************************)
EXTENDS Integers, Sequences, FiniteSets, TLC

\* ------------------------------------------------------------------ bounds
\* number of trigger requests the model receives
MaxReq == 1
\* length of the provider answers given to the extraction on its own
MaxLen == 4
\* number of requests of the specification of concurrent jobs
MaxJobs == 2
\* number of faults the environment injects into running jobs: updates the
\* record store rejects, provider calls that throw or answer without a
\* parseable payload
MaxFaults == 2

\* ------------------------------------------------------------ environment
Requests == 1..MaxReq

\* the cities table of the record store
cities ==
  { [id |-> "c1", city |-> "Springfield", state_code |-> "IL"] }

\* cityId values of request bodies: "" is the missing (falsy) identifier
CityIds == {"", "c1", "zz"}

\* free-form provider answers, as token sequences: "x" is prose, "w" is a
\* well-formed member list ("content": ..., "wordCount": 1)
ResponseTexts ==
  { <<"x", "{", "w", "}", "x">>,
    <<"{", "w", "}">>,
    <<"x", "x">>,
    <<"}", "x", "{">>,
    <<"{", "x", "}">>,
    <<>> }

\* what a provider call can do: throw, or answer with a text
ProviderOutcomes ==
  { [kind |-> "throw", text |-> <<>>] } \cup
  { [kind |-> "text", text |-> t] : t \in ResponseTexts }

\* ------------------------------------------------------- program constants
neighborhoods == <<"Downtown", "Northside", "Westside", "Eastside">>

\* mainSections with the second checkpoint mistyped
mainSections_SecondAtTen ==
  << [key |-> "hero_services",    label |-> "Hero & Services",       progress |-> 5,  tokens |-> 3000],
     [key |-> "areas_whychoose",  label |-> "Areas & Why Choose Us", progress |-> 10, tokens |-> 2500],
     [key |-> "pricing_process",  label |-> "Pricing & Process",     progress |-> 25, tokens |-> 2000],
     [key |-> "faqs_part1",       label |-> "FAQs Part 1",           progress |-> 35, tokens |-> 2500],
     [key |-> "faqs_part2",       label |-> "FAQs Part 2",           progress |-> 45, tokens |-> 2500],
     [key |-> "testimonials_cta", label |-> "Testimonials & CTA",    progress |-> 50, tokens |-> 1500] >>

mainSections ==
  << [key |-> "hero_services",    label |-> "Hero & Services",       progress |-> 5,  tokens |-> 3000],
     [key |-> "areas_whychoose",  label |-> "Areas & Why Choose Us", progress |-> 15, tokens |-> 2500],
     [key |-> "pricing_process",  label |-> "Pricing & Process",     progress |-> 25, tokens |-> 2000],
     [key |-> "faqs_part1",       label |-> "FAQs Part 1",           progress |-> 35, tokens |-> 2500],
     [key |-> "faqs_part2",       label |-> "FAQs Part 2",           progress |-> 45, tokens |-> 2500],
     [key |-> "testimonials_cta", label |-> "Testimonials & CTA",    progress |-> 50, tokens |-> 1500] >>

neighborhoodSections ==
  << [key |-> "intro_projects",  label |-> "Intro & Projects", tokens |-> 2000],
     [key |-> "service_details", label |-> "Service Details",  tokens |-> 1500],
     [key |-> "faqs_cta",        label |-> "FAQs & CTA",       tokens |-> 2000] >>

\* progress values are held as a number of sixths: 12.5 and 12.5 / 3 are
\* whole numbers of sixths
Sixths == 6

baseProgress == 50

\* 12.5, in sixths
progressPerNeighborhood == 75

\* the checkpoint reported before page assembly
assemblingProgress == 95

\* the progress written by the success finalization
completeProgress == 100

\* ---------------------------------------------------------------- helpers
\* m with m[key] = v
Put(m, key, v) ==
  [x \in DOMAIN m \cup {key} |-> IF x = key THEN v ELSE m[x]]

\* the empty object {}
EmptyObject == [x \in {} |-> 0]

\* Math.round of v sixths: the nearest integer, a half rounding up
MathRound(v) == (2 * v + Sixths) \div (2 * Sixths)

\* ----------------------------------------------------- the pipeline's steps
\* the sections in the order generateContent walks them: 1..6 are the main
\* sections, then three per neighborhood
MainCount == Len(mainSections)
StepCount == MainCount + Len(neighborhoods) * Len(neighborhoodSections)

IsMain(k) == k <= MainCount
\* NbIndex of loops that take the neighborhoods in turn for every section
NbIndex_RoundRobin(k) == (k - MainCount - 1) % Len(neighborhoods)

\* loop indices i (neighborhood) and j (section) of step k > MainCount
NbIndex(k) == (k - MainCount - 1) \div Len(neighborhoodSections)
SecIndex(k) == (k - MainCount - 1) % Len(neighborhoodSections)

\* the key of the sections map the step stores under
ScopeKey(k) ==
  IF IsMain(k) THEN <<"main">> ELSE <<"neighborhood_", neighborhoods[NbIndex(k) + 1]>>

SectionKey(k) ==
  IF IsMain(k) THEN mainSections[k].key
  ELSE neighborhoodSections[SecIndex(k) + 1].key

\* sectionProgress without the division of a neighborhood's share by three
sectionProgress_NoThird(k) ==
  IF IsMain(k) THEN Sixths * mainSections[k].progress
  ELSE (Sixths * baseProgress + NbIndex(k) * progressPerNeighborhood)
       + SecIndex(k) * progressPerNeighborhood

\* the progress argument of the step's updateProgress call, in sixths
sectionProgress(k) ==
  IF IsMain(k) THEN Sixths * mainSections[k].progress
  ELSE (Sixths * baseProgress + NbIndex(k) * progressPerNeighborhood)
       + SecIndex(k) * (progressPerNeighborhood \div 3)

\* the step argument of the step's updateProgress call
StepLabel(k) ==
  IF IsMain(k) THEN <<"Main page: ", mainSections[k].label, "...">>
  ELSE <<neighborhoods[NbIndex(k) + 1], ": ",
         neighborhoodSections[SecIndex(k) + 1].label, "...">>

\* ------------------------------------------------------------- extraction
\* positions of the braces of a text
OpenAt(t) == { p \in 1..Len(t) : t[p] = "{" }
CloseAt(t) == { p \in 1..Len(t) : t[p] = "}" }
MinOf(S) == CHOOSE p \in S : \A q \in S : p <= q
MaxOf(S) == CHOOSE p \in S : \A q \in S : q <= p

\* the value of a failed String.match
NoMatch == <<>>

\* one attempt of the matcher at start position p: \{ takes t[p], [\s\S]*
\* takes the rest of the text and gives back one character at a time until
\* \} matches
MatchAt(t, p) ==
  IF t[p] = "{" /\ { q \in CloseAt(t) : q > p } # {}
  THEN SubSeq(t, p, MaxOf({ q \in CloseAt(t) : q > p }))
  ELSE NoMatch

\* jsonMatch that gives back as much as it can: the span ends at the first
\* "}" after its "{"
jsonMatch_Lazy(t) ==
  IF { p \in OpenAt(t) : MatchAt(t, p) # NoMatch } # {}
  THEN LET p == MinOf({ x \in OpenAt(t) : MatchAt(t, x) # NoMatch })
       IN SubSeq(t, p, MinOf({ q \in CloseAt(t) : q > p }))
  ELSE NoMatch

\* contentText.match(/\{[\s\S]*\}/)[0]: the attempt at the leftmost start
\* position where an attempt succeeds
jsonMatch(t) ==
  IF { p \in OpenAt(t) : MatchAt(t, p) # NoMatch } # {}
  THEN MatchAt(t, MinOf({ p \in OpenAt(t) : MatchAt(t, p) # NoMatch }))
  ELSE NoMatch

\* JSON.parse of a span that starts with "{": the span is an object when its
\* braces enclose nothing or one well-formed member list
WellFormed(span) ==
  /\ Len(span) >= 2
  /\ span[1] = "{"
  /\ span[Len(span)] = "}"
  /\ SubSeq(span, 2, Len(span) - 1) \in { <<>>, <<"w">> }

JSONParse(span) ==
  IF ~WellFormed(span) THEN [ok |-> FALSE, message |-> "SyntaxError", value |-> EmptyObject]
  ELSE IF Len(span) = 2 THEN [ok |-> TRUE, message |-> "null", value |-> EmptyObject]
  ELSE [ok |-> TRUE, message |-> "null",
        value |-> [content |-> "text", wordCount |-> [type |-> "number", num |-> 1]]]

\* the part of generateMainSection after the provider call
generateMainSection(outcome) ==
  IF outcome.kind = "throw"
  THEN [ok |-> FALSE, message |-> "provider error", value |-> EmptyObject]
  ELSE IF jsonMatch(outcome.text) = NoMatch
  THEN [ok |-> FALSE, message |-> "No JSON in response", value |-> EmptyObject]
  ELSE JSONParse(jsonMatch(outcome.text))

\* the part of generateNeighborhoodSection after the provider call
generateNeighborhoodSection(outcome) ==
  IF outcome.kind = "throw"
  THEN [ok |-> FALSE, message |-> "provider error", value |-> EmptyObject]
  ELSE IF jsonMatch(outcome.text) = NoMatch
  THEN [ok |-> FALSE, message |-> "No JSON in response", value |-> EmptyObject]
  ELSE JSONParse(jsonMatch(outcome.text))

\* the two generators, tabulated over the provider's outcomes
mainResults == [o \in ProviderOutcomes |-> generateMainSection(o)]
neighborhoodResults == [o \in ProviderOutcomes |-> generateNeighborhoodSection(o)]

\* the generator generateContent calls at step k
generateSection(k, outcome) ==
  IF IsMain(k) THEN mainResults[outcome]
  ELSE neighborhoodResults[outcome]

\* --------------------------------------------------------------- assembly
\* the values a wordCount field can hold after JSON.parse: a number or a
\* string (of decimal digits here); a field that holds anything falsy is
\* the number 0
JSNumber(n) == [type |-> "number", num |-> n]
JSString(chars) == [type |-> "string", str |-> chars]

\* the decimal digits of a natural number, as String(n) writes them
RECURSIVE Digits(_)
Digits(n) ==
  IF n < 10 THEN <<(<<"0", "1", "2", "3", "4", "5", "6", "7", "8", "9">>)[n + 1]>>
  ELSE Digits(n \div 10) \o Digits(n % 10)

\* the string a value becomes when the other operand of + is a string
JSToString(v) == IF v.type = "number" THEN Digits(v.num) ELSE v.str

\* the truthiness that || tests
Truthy(v) == IF v.type = "number" THEN v.num # 0 ELSE v.str # <<>>

\* a + b: addition of two numbers, concatenation as soon as one is a string
JSPlus(a, b) ==
  IF a.type = "number" /\ b.type = "number" THEN JSNumber(a.num + b.num)
  ELSE JSString(JSToString(a) \o JSToString(b))

\* m[key]?.wordCount || 0
WordCountOf(m, key) ==
  IF key \in DOMAIN m /\ "wordCount" \in DOMAIN m[key] /\ Truthy(m[key].wordCount)
  THEN m[key].wordCount
  ELSE JSNumber(0)

\* sections[key] || {}
ScopeOf(sections, key) ==
  IF key \in DOMAIN sections THEN sections[key] ELSE EmptyObject

mainPage(city, sections) ==
  [ type |-> "main",
    title |-> <<"Dumpster Rental in ", city.city, ", ", city.state_code,
                " - Affordable Roll-Off Rentals">>,
    wordCount |->
      JSPlus(JSPlus(JSPlus(JSPlus(JSPlus(
        WordCountOf(ScopeOf(sections, <<"main">>), "hero_services"),
        WordCountOf(ScopeOf(sections, <<"main">>), "areas_whychoose")),
        WordCountOf(ScopeOf(sections, <<"main">>), "pricing_process")),
        WordCountOf(ScopeOf(sections, <<"main">>), "faqs_part1")),
        WordCountOf(ScopeOf(sections, <<"main">>), "faqs_part2")),
        WordCountOf(ScopeOf(sections, <<"main">>), "testimonials_cta")) ]

neighborhoodPage(city, neighborhood, sections) ==
  [ type |-> "neighborhood",
    neighborhoodName |-> neighborhood,
    title |-> <<"Dumpster Rental in ", neighborhood, ", ", city.city>>,
    wordCount |->
      JSPlus(JSPlus(
        WordCountOf(ScopeOf(sections, <<"neighborhood_", neighborhood>>), "intro_projects"),
        WordCountOf(ScopeOf(sections, <<"neighborhood_", neighborhood>>), "service_details")),
        WordCountOf(ScopeOf(sections, <<"neighborhood_", neighborhood>>), "faqs_cta")) ]

\* assemblePagesFromSections with the main page after the neighborhood pages
assemblePagesFromSections_MainLast(city, nbs, sections) ==
  [i \in 1..Len(nbs) |-> neighborhoodPage(city, nbs[i], sections)] \o
  <<mainPage(city, sections)>>

\* return [mainPage, ...neighborhoodPages]
assemblePagesFromSections(city, nbs, sections) ==
  <<mainPage(city, sections)>> \o
  [i \in 1..Len(nbs) |-> neighborhoodPage(city, nbs[i], sections)]

\* ------------------------------------------------------------ record store
\* NewJob with a results payload that already has a pages list
NewJob_WithPages(cityId) ==
  [ city_id |-> cityId,
    status |-> "processing",
    progress |-> 0,
    current_step |-> <<"Starting...">>,
    started_at |-> "now",
    results_json |-> [pages |-> <<>>, sections |-> EmptyObject],
    error_message |-> "null",
    completed_at |-> "null" ]

\* the record inserted by POST /research; the columns the insert leaves out
\* are null
NewJob(cityId) ==
  [ city_id |-> cityId,
    status |-> "processing",
    progress |-> 0,
    current_step |-> <<"Starting...">>,
    started_at |-> "now",
    results_json |-> [sections |-> EmptyObject],
    error_message |-> "null",
    completed_at |-> "null" ]

\* ApplyUpdate without the eq('id', id) filter: every row is updated
ApplyUpdate_AllRows(tbl, id, patch) ==
  [i \in DOMAIN tbl |->
     [f \in DOMAIN tbl[i] |-> IF f \in DOMAIN patch THEN patch[f] ELSE tbl[i][f]]]

\* an awaited update(patch).eq('id', id) that the store accepts
ApplyUpdate(tbl, id, patch) ==
  [tbl EXCEPT ![id] =
     [f \in DOMAIN tbl[id] |-> IF f \in DOMAIN patch THEN patch[f] ELSE tbl[id][f]]]

\* an update(patch).eq('id', id) whose builder is never awaited: the client
\* sends a query when its builder's then() is called, so none is sent
UnawaitedUpdate(tbl, id, patch) == tbl

\* the patches of the three kinds of update
ProgressPatch(progress, step) ==
  [progress |-> MathRound(progress), current_step |-> step]

\* SuccessPatch without the status
SuccessPatch_NoStatus(pages, sections) ==
  [ progress |-> completeProgress,
    current_step |-> <<"Complete!">>,
    completed_at |-> "now",
    results_json |-> [pages |-> pages, sections |-> sections] ]

SuccessPatch(pages, sections) ==
  [ status |-> "completed",
    progress |-> completeProgress,
    current_step |-> <<"Complete!">>,
    completed_at |-> "now",
    results_json |-> [pages |-> pages, sections |-> sections] ]

\* FailurePatch that also resets the progress
FailurePatch_ResetsProgress(message) ==
  [status |-> "failed", error_message |-> message, completed_at |-> "now",
   progress |-> 0, current_step |-> <<"Failed">>]

FailurePatch(message) ==
  [status |-> "failed", error_message |-> message, completed_at |-> "now"]

\* ------------------------------------------------------------------ state
VARIABLES
  reqs,     \* the trigger requests: handler position, body, response
  jobs,     \* the research_jobs table; a job's id is its index
  task,     \* the generateContent call of each job: position and locals
  faults,   \* number of faults injected into running jobs so far
  outage,   \* TRUE when the record store rejects every progress write
  call      \* a call of the extraction or of the page assembler on its own

vars == <<reqs, jobs, task, faults, outage, call>>

\* no call of a function on its own
NoCall == [fn |-> "none", arg |-> <<>>, done |-> FALSE, result |-> <<>>]

JobIds == 1..Len(jobs)

NoCity == [id |-> "", city |-> "", state_code |-> ""]

Init ==
  /\ reqs = [r \in Requests |->
               [pc |-> "idle", cityId |-> "", city |-> NoCity, status |-> 0, jobId |-> 0]]
  /\ jobs = <<>>
  /\ task = <<>>
  /\ faults = 0
  /\ outage = FALSE
  /\ call = NoCall

\* the store accepts an update, or rejects it while faults remain
StoreAnswers == IF faults < MaxFaults THEN {TRUE, FALSE} ELSE {TRUE}

\* the same for a progress write; during an outage the store rejects each
ProgressAnswers == IF outage THEN {FALSE} ELSE StoreAnswers

\* the provider answers with a payload, or fails while faults remain
Faulty(k, outcome) == ~generateSection(k, outcome).ok
ProviderAnswers(k) ==
  IF faults < MaxFaults THEN ProviderOutcomes
  ELSE { o \in ProviderOutcomes : ~Faulty(k, o) }

\* ------------------------------------------------------- POST /research
\* the handler up to the city fetch: 400 without a cityId.  Requests are
\* numbered in their order of arrival
Trigger(r, cityId) ==
  /\ reqs[r].pc = "idle"
  /\ \A q \in DOMAIN reqs : q < r => reqs[q].pc # "idle"
  /\ reqs' = [reqs EXCEPT ![r] =
       IF cityId = ""
       THEN [@ EXCEPT !.pc = "done", !.status = 400]
       ELSE [@ EXCEPT !.pc = "fetchCity", !.cityId = cityId]]
  /\ UNCHANGED <<jobs, task, faults>>
  /\ UNCHANGED <<outage, call>>

\* from('cities').select('*').eq('id', cityId).single()
FetchCity(cityId, storeOk) ==
  IF storeOk /\ \E c \in cities : c.id = cityId
  THEN [error |-> FALSE, data |-> CHOOSE c \in cities : c.id = cityId]
  ELSE [error |-> TRUE, data |-> NoCity]

\* the city fetch returns: 404 on an error or no city, else the insert is sent
CityFetchReturn(r, storeOk) ==
  /\ reqs[r].pc = "fetchCity"
  /\ LET res == FetchCity(reqs[r].cityId, storeOk) IN
     reqs' = [reqs EXCEPT ![r] =
       IF res.error
       THEN [@ EXCEPT !.pc = "done", !.status = 404]
       ELSE [@ EXCEPT !.pc = "insertJob", !.city = res.data]]
  /\ UNCHANGED <<jobs, task, faults>>
  /\ UNCHANGED <<outage, call>>

\* what generateContent does, in the order it does it: a call of step k is
\* sent or has returned, the payload of step k is put into the sections map;
\* the calls after the loops have no step
SectionEvent(op, k) == <<op, k>>
PipelineEvent(op) == <<op, 0>>

\* generateContent up to its first await: the locals, and the first
\* updateProgress call sent.  progressReports and providerCalls count the
\* calls made so far, lastApplied is the step of the last progress write the
\* store applied; the code keeps none of the three
StartTask(r, city) ==
  [ req |-> r,
    city |-> city,
    pc |-> "report",
    k |-> 1,
    sections |-> Put(EmptyObject, <<"main">>, EmptyObject),
    pages |-> <<>>,
    error |-> "null",
    progressReports |-> 1,
    lastApplied |-> 0,
    providerCalls |-> 0,
    events |-> <<SectionEvent("writeSent", 1)>> ]

\* StartedResponse with the identifier of the job before
StartedResponse_OffByOne(req, jobId) ==
  [req EXCEPT !.pc = "done", !.status = 200, !.jobId = jobId - 1]

\* the response of the handler once the job is inserted
StartedResponse(req, jobId) ==
  [req EXCEPT !.pc = "done", !.status = 200, !.jobId = jobId]

\* the response of the handler when the insert fails
InsertFailedResponse(req) ==
  [req EXCEPT !.pc = "done", !.status = 500]

\* InsertReturn that does not look at jobError before starting the pipeline
InsertReturn_IgnoresError(r, storeOk) ==
  /\ reqs[r].pc = "insertJob"
  /\ jobs' = Append(jobs, NewJob(reqs[r].cityId))
  /\ task' = Append(task, StartTask(r, reqs[r].city))
  /\ reqs' = [reqs EXCEPT ![r] =
       IF storeOk THEN [@ EXCEPT !.pc = "done", !.status = 200, !.jobId = Len(jobs) + 1]
       ELSE [@ EXCEPT !.pc = "done", !.status = 500]]
  /\ UNCHANGED faults
  /\ UNCHANGED <<outage, call>>

\* InsertReturn that awaits generateContent before it responds
InsertReturn_AwaitsPipeline(r, storeOk) ==
  /\ reqs[r].pc = "insertJob"
  /\ IF storeOk
     THEN /\ jobs' = Append(jobs, NewJob(reqs[r].cityId))
          /\ task' = Append(task, StartTask(r, reqs[r].city))
          /\ reqs' = [reqs EXCEPT ![r].pc = "done", ![r].jobId = Len(jobs) + 1]
     ELSE /\ reqs' = [reqs EXCEPT ![r].pc = "done", ![r].status = 500]
          /\ UNCHANGED <<jobs, task>>
  /\ UNCHANGED faults
  /\ UNCHANGED <<outage, call>>

\* the insert returns: 500 on an error; else generateContent is started and
\* the response is sent in the same turn
InsertReturn(r, storeOk) ==
  /\ reqs[r].pc = "insertJob"
  /\ IF storeOk
     THEN /\ jobs' = Append(jobs, NewJob(reqs[r].cityId))
          /\ task' = Append(task, StartTask(r, reqs[r].city))
          /\ reqs' = [reqs EXCEPT ![r] = StartedResponse(@, Len(jobs) + 1)]
     ELSE /\ reqs' = [reqs EXCEPT ![r] = InsertFailedResponse(@)]
          /\ UNCHANGED <<jobs, task>>
  /\ UNCHANGED faults
  /\ UNCHANGED <<outage, call>>

\* ------------------------------------------------------- generateContent
\* updateProgress(progress, step) returns: the store has applied the update
\* or has rejected it; the awaited result is not looked at
updateProgress(tbl, jobId, progress, step, storeOk) ==
  IF storeOk THEN ApplyUpdate(tbl, jobId, ProgressPatch(progress, step)) ELSE tbl

Injected(fault) == IF fault THEN faults + 1 ELSE faults

\* the rejections of an outage are not counted
InjectedWrite(storeOk) == IF outage THEN faults ELSE Injected(~storeOk)

\* ReportReturn that throws when the store rejects the write
ReportReturn_ThrowsOnReject(j, storeOk) ==
  /\ task[j].pc = "report"
  /\ jobs' = updateProgress(jobs, j, sectionProgress(task[j].k), StepLabel(task[j].k), storeOk)
  /\ faults' = InjectedWrite(storeOk)
  /\ task' = IF storeOk
             THEN [task EXCEPT ![j].pc = "generate",
                               ![j].lastApplied = task[j].k,
                               ![j].providerCalls = @ + 1]
             ELSE [task EXCEPT ![j].pc = "rejected", ![j].error = "persistence error"]
  /\ UNCHANGED reqs
  /\ UNCHANGED <<outage, call>>

\* the progress write of step k returns; the provider call of step k is sent
ReportReturn(j, storeOk) ==
  /\ task[j].pc = "report"
  /\ jobs' = updateProgress(jobs, j, sectionProgress(task[j].k), StepLabel(task[j].k), storeOk)
  /\ faults' = InjectedWrite(storeOk)
  /\ task' = [task EXCEPT ![j].pc = "generate",
                          ![j].lastApplied = IF storeOk THEN task[j].k ELSE @,
                          ![j].providerCalls = @ + 1,
                          ![j].events = @ \o <<SectionEvent("writeReturned", task[j].k),
                                               SectionEvent("callSent", task[j].k)>>]
  /\ UNCHANGED reqs
  /\ UNCHANGED <<outage, call>>

\* the locals after section k is stored: the next section's scope is created
\* when it opens a neighborhood, and the next updateProgress call is sent
NextStep(t, value) ==
  LET stored == Put(t.sections, ScopeKey(t.k),
                    Put(t.sections[ScopeKey(t.k)], SectionKey(t.k), value))
  IN IF t.k < StepCount
     THEN [t EXCEPT !.sections =
                      IF ScopeKey(t.k + 1) \in DOMAIN stored THEN stored
                      ELSE Put(stored, ScopeKey(t.k + 1), EmptyObject),
                    !.k = t.k + 1,
                    !.pc = "report",
                    !.progressReports = @ + 1,
                    !.events = @ \o <<SectionEvent("callReturned", t.k),
                                      SectionEvent("stored", t.k),
                                      SectionEvent("writeSent", t.k + 1)>>]
     ELSE [t EXCEPT !.sections = stored,
                    !.pc = "assemble",
                    !.progressReports = @ + 1,
                    !.events = @ \o <<SectionEvent("callReturned", t.k),
                                      SectionEvent("stored", t.k),
                                      PipelineEvent("assemblingSent")>>]

\* Abort that catches the error inside the loop and goes on
Abort_Continues(t, message) ==
  [NextStep(t, EmptyObject) EXCEPT !.error = message]

\* Abort that calls the provider again for the section that failed
Abort_Retries(t, message) ==
  [t EXCEPT !.error = message,
            !.providerCalls = @ + 1,
            !.events = @ \o <<SectionEvent("callReturned", t.k),
                              SectionEvent("callSent", t.k)>>]

\* the locals after the generation of a section throws: the catch of
\* generateContent rethrows and the caller's catch callback runs
Abort(t, message) ==
  [t EXCEPT !.pc = "rejected", !.error = message,
            !.events = Append(@, SectionEvent("callReturned", t.k))]

\* the provider call of step k returns.  A payload is stored and the next
\* step begins; an error rejects generateContent, and the catch callback of
\* POST /research builds the failure update without awaiting it
GenerateReturn(j, outcome) ==
  /\ task[j].pc = "generate"
  /\ LET res == generateSection(task[j].k, outcome) IN
     IF res.ok
     THEN /\ task' = [task EXCEPT ![j] = NextStep(@, res.value)]
          /\ UNCHANGED jobs
     ELSE /\ task' = [task EXCEPT ![j] = Abort(@, res.message)]
          /\ jobs' = UnawaitedUpdate(jobs, j, FailurePatch(res.message))
  /\ faults' = Injected(Faulty(task[j].k, outcome))
  /\ UNCHANGED reqs
  /\ UNCHANGED <<outage, call>>

\* the 'Assembling pages...' write returns; the pages are assembled and the
\* final update is sent
AssembleReturn(j, storeOk) ==
  /\ task[j].pc = "assemble"
  /\ jobs' = updateProgress(jobs, j, Sixths * assemblingProgress,
                            <<"Assembling pages...">>, storeOk)
  /\ faults' = InjectedWrite(storeOk)
  /\ task' = [task EXCEPT
       ![j].pc = "finalize",
       ![j].lastApplied = IF storeOk THEN StepCount + 1 ELSE @,
       ![j].pages = assemblePagesFromSections(task[j].city, neighborhoods, task[j].sections),
       ![j].events = @ \o <<PipelineEvent("assemblingReturned"), PipelineEvent("finalSent")>>]
  /\ UNCHANGED reqs
  /\ UNCHANGED <<outage, call>>

\* FinalizeReturn that reports the assembly once more after the final update
FinalizeReturn_ReportsAgain(j, storeOk) ==
  /\ task[j].pc = "finalize"
  /\ jobs' = IF storeOk
             THEN ApplyUpdate(jobs, j, SuccessPatch(task[j].pages, task[j].sections))
             ELSE jobs
  /\ faults' = Injected(~storeOk)
  /\ task' = [task EXCEPT ![j].pc = IF task[j].progressReports > StepCount + 1
                                    THEN "resolved" ELSE "assemble",
                          ![j].progressReports = @ + 1]
  /\ UNCHANGED reqs
  /\ UNCHANGED <<outage, call>>

\* the final update returns, applied or rejected; generateContent resolves
FinalizeReturn(j, storeOk) ==
  /\ task[j].pc = "finalize"
  /\ jobs' = IF storeOk
             THEN ApplyUpdate(jobs, j, SuccessPatch(task[j].pages, task[j].sections))
             ELSE jobs
  /\ faults' = Injected(~storeOk)
  /\ task' = [task EXCEPT ![j].pc = "resolved",
                          ![j].events = Append(@, PipelineEvent("finalReturned"))]
  /\ UNCHANGED reqs
  /\ UNCHANGED <<outage, call>>

Next ==
  \/ \E r \in Requests, cityId \in CityIds : Trigger(r, cityId)
  \/ \E r \in Requests, storeOk \in BOOLEAN : CityFetchReturn(r, storeOk)
  \/ \E r \in Requests, storeOk \in BOOLEAN : InsertReturn(r, storeOk)
  \/ \E j \in JobIds, storeOk \in ProgressAnswers : ReportReturn(j, storeOk)
  \/ \E j \in JobIds : \E outcome \in ProviderAnswers(task[j].k) : GenerateReturn(j, outcome)
  \/ \E j \in JobIds, storeOk \in ProgressAnswers : AssembleReturn(j, storeOk)
  \/ \E j \in JobIds, storeOk \in StoreAnswers : FinalizeReturn(j, storeOk)

Spec == Init /\ [][Next]_vars

\* the service while the record store rejects every progress write
InitOutage ==
  /\ reqs = [r \in Requests |->
               [pc |-> "idle", cityId |-> "", city |-> NoCity, status |-> 0, jobId |-> 0]]
  /\ jobs = <<>>
  /\ task = <<>>
  /\ faults = 0
  /\ outage = TRUE
  /\ call = NoCall

OutageSpec == InitOutage /\ [][Next]_vars

\* the service with MaxJobs requests, whose jobs run concurrently, and an
\* environment that injects no fault into the running jobs
InitConc ==
  /\ reqs = [r \in 1..MaxJobs |->
               [pc |-> "idle", cityId |-> "", city |-> NoCity, status |-> 0, jobId |-> 0]]
  /\ jobs = <<>>
  /\ task = <<>>
  /\ faults = MaxFaults
  /\ outage = FALSE
  /\ call = NoCall

NextConc ==
  \/ \E r \in DOMAIN reqs, cityId \in CityIds : Trigger(r, cityId)
  \/ \E r \in DOMAIN reqs, storeOk \in BOOLEAN : CityFetchReturn(r, storeOk)
  \/ \E r \in DOMAIN reqs, storeOk \in BOOLEAN : InsertReturn(r, storeOk)
  \/ \E j \in JobIds, storeOk \in ProgressAnswers : ReportReturn(j, storeOk)
  \/ \E j \in JobIds : \E outcome \in ProviderAnswers(task[j].k) : GenerateReturn(j, outcome)
  \/ \E j \in JobIds, storeOk \in ProgressAnswers : AssembleReturn(j, storeOk)
  \/ \E j \in JobIds, storeOk \in StoreAnswers : FinalizeReturn(j, storeOk)

ConcSpec == InitConc /\ [][NextConc]_vars

\* every call to the store and to the provider eventually returns, and the
\* callback of a returned call is eventually run
TaskStep(j) ==
  /\ j \in JobIds
  /\ \/ \E storeOk \in ProgressAnswers : ReportReturn(j, storeOk)
     \/ \E outcome \in ProviderAnswers(task[j].k) : GenerateReturn(j, outcome)
     \/ \E storeOk \in ProgressAnswers : AssembleReturn(j, storeOk)
     \/ \E storeOk \in StoreAnswers : FinalizeReturn(j, storeOk)

FairSpec ==
  /\ Spec
  /\ \A r \in Requests :
       /\ WF_vars(\E storeOk \in BOOLEAN : CityFetchReturn(r, storeOk))
       /\ WF_vars(\E storeOk \in BOOLEAN : InsertReturn(r, storeOk))
  /\ \A j \in Requests : WF_vars(TaskStep(j))

\* ------------------------------------- the pure functions on their own
\* the tokens of a provider answer
Tokens == {"{", "}", "w", "x"}

\* the provider answers of at most MaxLen tokens
Texts == UNION { [1..n -> Tokens] : n \in 0..MaxLen }

\* what generateContent can leave under a section key: nothing, a payload
\* without a wordCount, a payload whose wordCount is a number, a payload
\* whose wordCount is the same number written as a string
PayloadOf(choice) ==
  IF choice.as = "number" THEN [content |-> "text", wordCount |-> JSNumber(choice.wordCount)]
  ELSE IF choice.as = "string"
  THEN [content |-> "text", wordCount |-> JSString(Digits(choice.wordCount))]
  ELSE [content |-> "text"]

\* the map of the keys that are not absent to their payloads
ScopeFrom(choices) ==
  [key \in { x \in DOMAIN choices : choices[x].as # "absent" } |-> PayloadOf(choices[key])]

\* the word counts the prompts ask for
mainWordCounts ==
  [ hero_services |-> 1200, areas_whychoose |-> 1000, pricing_process |-> 700,
    faqs_part1 |-> 1000, faqs_part2 |-> 1000, testimonials_cta |-> 500 ]

neighborhoodWordCounts ==
  [ intro_projects |-> 800, service_details |-> 600, faqs_cta |-> 800 ]

\* per key: absent, without wordCount, or with the word count asked for
ChoicesOver(counts) ==
  { [x \in DOMAIN counts |-> [as |-> c[x], wordCount |-> counts[x]]] :
      c \in [DOMAIN counts -> {"absent", "none", "number", "string"}] }

\* every key present with the word count asked for, as a number
FullOver(counts) ==
  [x \in DOMAIN counts |-> [as |-> "number", wordCount |-> counts[x]]]

\* sections maps: a main scope of any choices without neighborhood scopes;
\* no main scope at all; the full main scope with the same choices in the
\* scopes of some of the neighborhoods
SectionsInputs ==
  { Put(EmptyObject, <<"main">>, ScopeFrom(m)) : m \in ChoicesOver(mainWordCounts) }
  \cup { EmptyObject }
  \cup { [ scope \in {<<"main">>} \cup { <<"neighborhood_", neighborhoods[i]>> : i \in who } |->
             IF scope = <<"main">> THEN ScopeFrom(FullOver(mainWordCounts)) ELSE ScopeFrom(n) ] :
           n \in ChoicesOver(neighborhoodWordCounts),
           who \in SUBSET (1..Len(neighborhoods)) }

\* the city the assembler is called with
TheCity == CHOOSE c \in cities : TRUE

\* a call of the assembler or of a generator's extraction is about to be made
InitPure ==
  /\ reqs = [r \in Requests |->
               [pc |-> "idle", cityId |-> "", city |-> NoCity, status |-> 0, jobId |-> 0]]
  /\ jobs = <<>>
  /\ task = <<>>
  /\ faults = 0
  /\ outage = FALSE
  /\ \/ \E s \in SectionsInputs :
          call = [fn |-> "assemblePagesFromSections", arg |-> s, done |-> FALSE, result |-> <<>>]
     \/ \E t \in Texts, fn \in {"generateMainSection", "generateNeighborhoodSection"} :
          call = [fn |-> fn, arg |-> t, done |-> FALSE, result |-> <<>>]

\* the assembler returns
CallAssembler ==
  /\ call.fn = "assemblePagesFromSections"
  /\ ~call.done
  /\ call' = [call EXCEPT !.done = TRUE,
                          !.result = assemblePagesFromSections(TheCity, neighborhoods, call.arg)]
  /\ UNCHANGED <<reqs, jobs, task, faults, outage>>

\* a generator returns or throws, given the provider's answer
CallGenerator ==
  /\ call.fn \in {"generateMainSection", "generateNeighborhoodSection"}
  /\ ~call.done
  /\ call' = [call EXCEPT
       !.done = TRUE,
       !.result = IF call.fn = "generateMainSection"
                  THEN generateMainSection([kind |-> "text", text |-> call.arg])
                  ELSE generateNeighborhoodSection([kind |-> "text", text |-> call.arg])]
  /\ UNCHANGED <<reqs, jobs, task, faults, outage>>

NextPure == CallAssembler \/ CallGenerator

PureSpec == InitPure /\ [][NextPure]_vars

\* ================================================================= claims
\* the background task of job j has thrown
Failed(j) == task[j].error # "null"

\* C1: within one job the progress stored in the job record never decreases
\* from one write to the next, the 'Assembling pages...' write included.
C1_ProgressNonDecreasing ==
  [][\A j \in JobIds : jobs'[j].progress >= jobs[j].progress]_vars

\* C2: once a step of the background pipeline of a job has failed, the job's
\* record has status 'failed', the error's message as error_message and
\* completed_at set.
C2_FailureMarksJobFailed ==
  \A j \in JobIds :
    Failed(j) =>
      /\ jobs[j].status = "failed"
      /\ jobs[j].error_message = task[j].error
      /\ jobs[j].completed_at # "null"

\* C3: every job record that is created eventually leaves status
\* 'processing' for 'completed' or 'failed', when every call returns and
\* every callback is run.
C3_EveryJobLeavesProcessing ==
  \A j \in Requests :
    (j \in JobIds) ~> (j \in JobIds /\ jobs[j].status \in {"completed", "failed"})

\* the job records a request has inserted
JobsOf(r) == { j \in JobIds : task[j].req = r }

\* the record as POST /research creates it
AsCreated(rec) ==
  /\ rec.status = "processing"
  /\ rec.progress = 0
  /\ rec.current_step = <<"Starting...">>

\* C4 as stated: a request whose cityId resolves to a city ends with exactly
\* one job record inserted and that job's identifier in a success response.
C4_Original ==
  \A r \in Requests :
    (reqs[r].pc = "done" /\ reqs[r].city # NoCity) =>
      /\ Cardinality(JobsOf(r)) = 1
      /\ reqs[r].status = 200
      /\ reqs[r].jobId \in JobsOf(r)

\* C4, amended: a request whose cityId resolves to a city and whose insert
\* the store accepts inserts exactly one job record, created with status
\* 'processing', progress 0 and current_step 'Starting...', and responds with
\* that job's identifier; a request whose insert the store rejects inserts
\* none and is answered 500; no request ever inserts more than one record.
C4_OneJobPerAcceptedRequest ==
  /\ [](\A r \in Requests :
         /\ Cardinality(JobsOf(r)) <= 1
         /\ (reqs[r].pc = "done" /\ reqs[r].city # NoCity) =>
              \/ /\ reqs[r].status = 200
                 /\ JobsOf(r) = {reqs[r].jobId}
              \/ /\ reqs[r].status = 500
                 /\ JobsOf(r) = {})
  /\ [][\A r \in Requests :
         (reqs[r].pc = "insertJob" /\ reqs'[r].pc = "done" /\ reqs'[r].status = 200) =>
           /\ Len(jobs') = Len(jobs) + 1
           /\ reqs'[r].jobId = Len(jobs')
           /\ AsCreated(jobs'[Len(jobs')])]_vars

C4_Witness ==
  \E r \in Requests :
    /\ reqs[r].status = 200
    /\ JobsOf(r) = {reqs[r].jobId}
    /\ AsCreated(jobs[reqs[r].jobId])

\* C5: a request answered with an error (400 without a cityId, 404 when the
\* city fetch gives an error or no city, 500 when the insert fails) has
\* inserted no job record and has no background task, hence no provider call
\* and no job update made for it; records and tasks exist only for requests
\* answered with success.
C5_ErrorResponseCreatesNothing ==
  /\ \A r \in Requests :
       reqs[r].status \in {400, 404, 500} => (JobsOf(r) = {} /\ reqs[r].jobId = 0)
  /\ Len(task) = Len(jobs)
  /\ Len(jobs) = Cardinality({ r \in Requests : reqs[r].status = 200 })

C5_Witness ==
  \E r \in Requests : reqs[r].status = 500 /\ reqs[r].city # NoCity /\ JobsOf(r) = {}

\* C6: the success response is sent in the turn that creates the job and
\* starts the pipeline: when it is sent the job is 'processing' and no
\* provider call of the job has been made, let alone returned; a request
\* whose background task exists has been answered, whatever the task does
\* later, and a response once sent stays.
C6_ResponseBeforePipeline ==
  /\ [](\A j \in JobIds : reqs[task[j].req].status = 200 /\ reqs[task[j].req].jobId = j)
  /\ [][\A r \in Requests :
         /\ (reqs[r].status # 200 /\ reqs'[r].status = 200) =>
              /\ reqs'[r].jobId \in 1..Len(jobs')
              /\ jobs'[reqs'[r].jobId].status = "processing"
              /\ task'[reqs'[r].jobId].providerCalls = 0
              /\ reqs'[r].jobId \notin JobIds
         /\ reqs[r].status = 200 => reqs'[r] = reqs[r]]_vars

\* the pipeline of an answered request has gone on and failed
C6_Witness ==
  \E j \in JobIds : reqs[task[j].req].status = 200 /\ Failed(j) /\ task[j].providerCalls > 0

\* C7: a job's stored progress is 100 exactly when its status is
\* 'completed', and a completed record holds what the success finalization
\* writes in its one update: current_step 'Complete!', completed_at and
\* results {pages, sections}.
C7_HundredIffCompleted ==
  \A j \in JobIds :
    /\ jobs[j].progress = 100 <=> jobs[j].status = "completed"
    /\ jobs[j].status = "completed" =>
         /\ jobs[j].current_step = <<"Complete!">>
         /\ jobs[j].completed_at # "null"
         /\ jobs[j].results_json = [pages |-> task[j].pages, sections |-> task[j].sections]

C7_Witness ==
  \E j \in JobIds : jobs[j].status = "completed" /\ jobs[j].progress = 100

\* C8: the stored results hold a 'pages' list or a non-empty 'sections' only
\* in a completed job; in a 'processing' or 'failed' job they are the value
\* written at creation.
C8_ResultsOnlyWhenCompleted ==
  \A j \in JobIds :
    /\ ("pages" \in DOMAIN jobs[j].results_json \/ jobs[j].results_json.sections # EmptyObject)
         => jobs[j].status = "completed"
    /\ jobs[j].status \in {"processing", "failed"}
         => jobs[j].results_json = [sections |-> EmptyObject]

\* the pages are assembled in memory and the record does not have them yet
C8_Witness ==
  \E j \in JobIds :
    /\ task[j].pc = "finalize"
    /\ Len(task[j].pages) > 0
    /\ jobs[j].status = "processing"
    /\ jobs[j].results_json = [sections |-> EmptyObject]

\* the sections of the steps from k on have no payload in the sections map
NothingStoredFrom(t, k) ==
  \A n \in k..StepCount :
    ScopeKey(n) \in DOMAIN t.sections => SectionKey(n) \notin DOMAIN t.sections[ScopeKey(n)]

\* C9: once a step of a job has failed nothing more happens for that job:
\* its task and its record never change again, so there is no further
\* provider call, progress report, page assembly or success finalization;
\* the calls made are those up to the failing step, and no section from the
\* failing one on is stored.
C9_NothingAfterFailure ==
  /\ [](\A j \in JobIds :
         Failed(j) =>
           /\ task[j].providerCalls = task[j].k
           /\ task[j].progressReports = task[j].k
           /\ task[j].pages = <<>>
           /\ NothingStoredFrom(task[j], task[j].k)
           /\ jobs[j].status # "completed")
  /\ [][\A j \in JobIds : Failed(j) => (task'[j] = task[j] /\ jobs'[j] = jobs[j])]_vars

\* a neighborhood section has failed
C9_Witness ==
  \E j \in JobIds : Failed(j) /\ ~IsMain(task[j].k)

\* C10 as stated: when the second main section fails, the stored progress
\* is 5 and the results have no pages.
C10_Original ==
  \A j \in JobIds :
    (Failed(j) /\ task[j].k = 2) =>
      /\ jobs[j].progress = 5
      /\ "pages" \notin DOMAIN jobs[j].results_json

\* C10, amended: when the second main section fails, the stored progress is
\* the value of the last progress write the store applied: 15, the second
\* section's own checkpoint, which is reported before its generation starts;
\* 5 if the store rejected that write, 0 if it rejected both; the results
\* have no pages.
C10_ProgressAtSecondSectionFailure ==
  \A j \in JobIds :
    (Failed(j) /\ task[j].k = 2) =>
      /\ jobs[j].progress =
           IF task[j].lastApplied = 2 THEN 15
           ELSE IF task[j].lastApplied = 1 THEN 5 ELSE 0
      /\ "pages" \notin DOMAIN jobs[j].results_json

C10_Witness ==
  \E j \in JobIds :
    Failed(j) /\ task[j].k = 2 /\ task[j].lastApplied = 2 /\ jobs[j].progress = 15

\* the progress a record holds after the progress write of step n was the
\* last one applied (0: none was)
ProgressAfter(n) ==
  IF n = 0 THEN 0
  ELSE IF n <= StepCount THEN MathRound(sectionProgress(n))
  ELSE assemblingProgress

\* C11: the failure finalization leaves progress, current_step and the
\* results payload alone: its update names status, error_message and
\* completed_at only, applying it to a record changes none of the three, and
\* over the failing step the record keeps them, so that after a failure the
\* progress is the value of the last progress write applied before it.
C11_FailureKeepsProgress ==
  /\ [](\A j \in JobIds :
         /\ DOMAIN FailurePatch(task[j].error) = {"status", "error_message", "completed_at"}
         /\ LET after == ApplyUpdate(jobs, j, FailurePatch(task[j].error))[j] IN
              /\ after.progress = jobs[j].progress
              /\ after.current_step = jobs[j].current_step
              /\ after.results_json = jobs[j].results_json
         /\ Failed(j) => jobs[j].progress = ProgressAfter(task[j].lastApplied))
  /\ [][\A j \in JobIds :
         (~Failed(j) /\ task'[j].error # "null") =>
           /\ jobs'[j].progress = jobs[j].progress
           /\ jobs'[j].current_step = jobs[j].current_step
           /\ jobs'[j].results_json = jobs[j].results_json]_vars

\* a job has failed after a progress write was applied
C11_Witness ==
  \E j \in JobIds :
    /\ Failed(j)
    /\ task[j].lastApplied >= 1
    /\ jobs[j].progress = ProgressAfter(task[j].lastApplied)
    /\ jobs[j].progress > 0

\* the progress write that returns in this step was rejected: the record
\* keeps its progress and its label
WriteRejected(j) ==
  /\ task[j].pc \in {"report", "assemble"}
  /\ task'[j] # task[j]
  /\ jobs'[j].progress = jobs[j].progress
  /\ jobs'[j].current_step = jobs[j].current_step

\* C12: a progress write the store rejects does not abort the pipeline: the
\* task goes on to the provider call of the same section (to the final
\* update after the 'Assembling pages...' write) and has not failed; a task
\* fails at a provider call only.  With every progress write rejected the
\* job still completes (the witness).
C12_RejectedWriteGoesOn ==
  /\ [](\A j \in JobIds : Failed(j) => task[j].providerCalls = task[j].k)
  /\ [][\A j \in JobIds :
         WriteRejected(j) =>
           /\ task'[j].error = "null"
           /\ task'[j].k = task[j].k
           /\ task[j].pc = "report" =>
                /\ task'[j].pc = "generate"
                /\ task'[j].providerCalls = task[j].providerCalls + 1
           /\ task[j].pc = "assemble" => task'[j].pc = "finalize"]_vars

\* a job is completed and no progress write of it was ever applied
C12_Witness ==
  \E j \in JobIds :
    /\ jobs[j].status = "completed"
    /\ task[j].lastApplied = 0
    /\ task[j].progressReports = StepCount + 1
    /\ task[j].providerCalls = StepCount

\* the label a record holds after the progress write of step n was the last
\* one applied
LabelAfter(n) ==
  IF n = 0 THEN <<"Starting...">>
  ELSE IF n <= StepCount THEN StepLabel(n)
  ELSE <<"Assembling pages...">>

\* where the payload of each step goes in the sections map
StepKeys == [n \in 1..StepCount |-> [scope |-> ScopeKey(n), key |-> SectionKey(n)]]

\* section n has a payload in the sections map of task t
Stored(t, n) ==
  /\ StepKeys[n].scope \in DOMAIN t.sections
  /\ StepKeys[n].key \in DOMAIN t.sections[StepKeys[n].scope]

\* the record of job j is what the job's own task has written, and the
\* task's sections map holds the sections of its own finished steps
RunsAlone(j) ==
  /\ LET finished == IF task[j].pc \in {"assemble", "finalize", "resolved"}
                     THEN task[j].k ELSE task[j].k - 1
     IN \A n \in 1..StepCount : Stored(task[j], n) <=> n <= finished
  /\ IF jobs[j].status = "completed"
     THEN /\ task[j].pc = "resolved"
          /\ jobs[j].results_json = [pages |-> task[j].pages, sections |-> task[j].sections]
     ELSE /\ jobs[j].status = "processing"
          /\ jobs[j].progress = ProgressAfter(task[j].lastApplied)
          /\ jobs[j].current_step = LabelAfter(task[j].lastApplied)
          /\ jobs[j].results_json = [sections |-> EmptyObject]

\* C13: with several jobs running, under every interleaving a step of one
\* job's pipeline changes the record and the locals of that job only, a
\* record is changed by its own job's steps only, and in every state each
\* record and each sections map is what its own task alone has produced.
C13_JobsAreIsolated ==
  /\ [](\A j \in JobIds : RunsAlone(j))
  /\ [][LET stepped == { j \in JobIds : task'[j] # task[j] }
             written == { j \in JobIds : jobs'[j] # jobs[j] }
         IN /\ Cardinality(stepped) <= 1
            /\ written \subseteq stepped]_vars

\* two jobs are in their pipelines at different sections
C13_Witness ==
  \E i, j \in JobIds :
    /\ i # j
    /\ task[i].pc = "generate"
    /\ task[j].pc = "report"
    /\ task[i].k > task[j].k
    /\ jobs[i].progress > jobs[j].progress
    /\ jobs[j].progress > 0

\* C14: once the status of a job is 'completed' or 'failed' its record is
\* never written again: the status, the progress, the label and the results
\* stay as they are.
C14_TerminalRecordIsFinal ==
  [][\A j \in JobIds :
       jobs[j].status \in {"completed", "failed"} => jobs'[j] = jobs[j]]_vars

\* a job is completed and its task has ended
C14_Witness ==
  \E j \in JobIds : jobs[j].status = "completed" /\ task[j].pc = "resolved"

\* the progress argument, in sixths, of the updateProgress call that task t
\* is waiting for
Reported(t) ==
  IF t.pc = "report" THEN sectionProgress(t.k) ELSE Sixths * assemblingProgress

\* C15: with N the length of the neighborhood list, the checkpoint reported
\* before section j of neighborhood i is 50 + i * (50 / N) + j * (50 / (3N))
\* (both sides multiplied by 3N here), and no reported checkpoint exceeds
\* 100, before or after Math.round.
C15_NeighborhoodCheckpoints ==
  \A j \in JobIds :
    /\ (task[j].pc = "report" /\ ~IsMain(task[j].k)) =>
         3 * Len(neighborhoods) * sectionProgress(task[j].k) =
           Sixths * ( 50 * 3 * Len(neighborhoods)
                    + ((task[j].k - 7) \div 3) * 50 * 3
                    + ((task[j].k - 7) % 3) * 50 )
    /\ task[j].pc \in {"report", "assemble"} =>
         /\ Reported(task[j]) <= Sixths * 100
         /\ MathRound(Reported(task[j])) <= 100
    /\ jobs[j].progress <= 100

\* the last section of the last neighborhood is being reported: 95.83,
\* stored as 96
C15_Witness ==
  \E j \in JobIds :
    /\ task[j].pc = "report"
    /\ task[j].k = StepCount
    /\ sectionProgress(task[j].k) = 575
    /\ MathRound(sectionProgress(task[j].k)) = 96

\* the list of the main page and then, in the list's order, one page named
\* after each neighborhood
PageListShape(pages) ==
  /\ Len(pages) = 1 + Len(neighborhoods)
  /\ pages[1].type = "main"
  /\ \A i \in 1..Len(neighborhoods) :
       /\ pages[i + 1].type = "neighborhood"
       /\ pages[i + 1].neighborhoodName = neighborhoods[i]

\* the assembler over the sections maps with scopes, sections and word
\* counts missing
AssemblerGivesPageList ==
  \A s \in SectionsInputs :
    PageListShape(assemblePagesFromSections(TheCity, neighborhoods, s))

\* C16: a completed job stores 1 + N pages, the main page first and then
\* one neighborhood page per neighborhood in the list's order, each named
\* after its neighborhood; the assembler returns a list of this shape for
\* every sections map, also when scopes or sections are missing from it
C16_PageList ==
  /\ \A j \in JobIds :
       jobs[j].status = "completed" =>
         /\ "pages" \in DOMAIN jobs[j].results_json
         /\ PageListShape(jobs[j].results_json.pages)
  /\ AssemblerGivesPageList

C16_Witness ==
  \E j \in JobIds :
    /\ jobs[j].status = "completed"
    /\ Len(jobs[j].results_json.pages) = 5
    /\ jobs[j].results_json.pages[5].neighborhoodName = "Eastside"

\* the sections in the order the steps are to run in
ExpectedOrder ==
  << [scope |-> <<"main">>, key |-> "hero_services"],
     [scope |-> <<"main">>, key |-> "areas_whychoose"],
     [scope |-> <<"main">>, key |-> "pricing_process"],
     [scope |-> <<"main">>, key |-> "faqs_part1"],
     [scope |-> <<"main">>, key |-> "faqs_part2"],
     [scope |-> <<"main">>, key |-> "testimonials_cta"],
     [scope |-> <<"neighborhood_", "Downtown">>, key |-> "intro_projects"],
     [scope |-> <<"neighborhood_", "Downtown">>, key |-> "service_details"],
     [scope |-> <<"neighborhood_", "Downtown">>, key |-> "faqs_cta"],
     [scope |-> <<"neighborhood_", "Northside">>, key |-> "intro_projects"],
     [scope |-> <<"neighborhood_", "Northside">>, key |-> "service_details"],
     [scope |-> <<"neighborhood_", "Northside">>, key |-> "faqs_cta"],
     [scope |-> <<"neighborhood_", "Westside">>, key |-> "intro_projects"],
     [scope |-> <<"neighborhood_", "Westside">>, key |-> "service_details"],
     [scope |-> <<"neighborhood_", "Westside">>, key |-> "faqs_cta"],
     [scope |-> <<"neighborhood_", "Eastside">>, key |-> "intro_projects"],
     [scope |-> <<"neighborhood_", "Eastside">>, key |-> "service_details"],
     [scope |-> <<"neighborhood_", "Eastside">>, key |-> "faqs_cta"] >>

\* per section: its progress write is sent and returns, then its provider
\* call is sent and returns, then its payload is stored
SectionOps == <<"writeSent", "writeReturned", "callSent", "callReturned", "stored">>

\* after the sections: the 95 report, then the completion write
ClosingOps == <<"assemblingSent", "assemblingReturned", "finalSent", "finalReturned">>

\* the one history of a job that meets no failure
ExpectedEvents ==
  [ i \in 1..(Len(SectionOps) * Len(ExpectedOrder) + Len(ClosingOps)) |->
      IF i <= Len(SectionOps) * Len(ExpectedOrder)
      THEN [ op |-> SectionOps[((i - 1) % Len(SectionOps)) + 1],
             scope |-> ExpectedOrder[((i - 1) \div Len(SectionOps)) + 1].scope,
             key |-> ExpectedOrder[((i - 1) \div Len(SectionOps)) + 1].key ]
      ELSE [ op |-> ClosingOps[i - Len(SectionOps) * Len(ExpectedOrder)],
             scope |-> <<>>, key |-> "" ] ]

\* an event with the scope and the key of its step written out
Described(e) ==
  [ op |-> e[1],
    scope |-> IF e[2] = 0 THEN <<>> ELSE StepKeys[e[2]].scope,
    key |-> IF e[2] = 0 THEN "" ELSE StepKeys[e[2]].key ]

\* the events of a task of one kind
EventsOf(t, op) == SelectSeq(t.events, LAMBDA e : e[1] = op)

\* the provider calls of a job that were sent and have not returned
InFlight(t) == Len(EventsOf(t, "callSent")) - Len(EventsOf(t, "callReturned"))

\* C17: the steps of a job run one after the other in the fixed order: the
\* history of every job is a prefix of the one expected history (write of a
\* section returned before its provider call is sent, payload stored before
\* the next section's write is sent, 6 main sections, then 3 sections per
\* neighborhood in list order, then the 95 report, then the completion
\* write), and at most one provider call is in flight
C17_StrictlySequential ==
  \A j \in JobIds :
    /\ Len(task[j].events) <= Len(ExpectedEvents)
    /\ \A i \in 1..Len(task[j].events) : Described(task[j].events[i]) = ExpectedEvents[i]
    /\ InFlight(task[j]) \in {0, 1}
    /\ InFlight(task[j]) = 1 <=> task[j].pc = "generate"

C17_Witness ==
  \E j \in JobIds :
    /\ task[j].pc = "resolved"
    /\ Len(task[j].events) = 94
    /\ Described(task[j].events[88]) =
         [op |-> "callSent", scope |-> <<"neighborhood_", "Eastside">>, key |-> "faqs_cta"]

\* the sections a job has called the provider for, one entry per call
CalledSections(t) ==
  LET sent == EventsOf(t, "callSent")
  IN [i \in 1..Len(sent) |-> [scope |-> StepKeys[sent[i][2]].scope,
                              key |-> StepKeys[sent[i][2]].key]]

\* the number of calls for a section in a list of called sections
CallsFor(called, section) ==
  Cardinality({ i \in 1..Len(called) : called[i] = section })

\* the place in the order of the section a list of called sections ends
\* with: the section a failed job failed at
FailedAt(called) ==
  CHOOSE n \in 1..Len(ExpectedOrder) : ExpectedOrder[n] = called[Len(called)]

\* C18: a completed job has a payload stored under each of the 6 main keys
\* and each of the 3 keys of every neighborhood and has called the provider
\* exactly once per section, 6 + 3N times in all; a job whose pipeline
\* failed has called the provider at most once per section and not at all
\* for the sections after the one it failed at
C18_OneCallPerSection ==
  \A j \in JobIds :
    LET called == CalledSections(task[j]) IN
    /\ jobs[j].status = "completed" =>
         /\ \A n \in 1..Len(ExpectedOrder) :
              /\ ExpectedOrder[n].scope \in DOMAIN jobs[j].results_json.sections
              /\ ExpectedOrder[n].key
                   \in DOMAIN jobs[j].results_json.sections[ExpectedOrder[n].scope]
              /\ CallsFor(called, ExpectedOrder[n]) = 1
         /\ Len(called) = 6 + 3 * Len(neighborhoods)
         /\ task[j].providerCalls = 6 + 3 * Len(neighborhoods)
    /\ Failed(j) =>
         /\ task[j].events[Len(task[j].events)] = <<"callReturned", task[j].k>>
         /\ \A n \in 1..Len(ExpectedOrder) :
              /\ CallsFor(called, ExpectedOrder[n]) <= 1
              /\ n > FailedAt(called) => CallsFor(called, ExpectedOrder[n]) = 0
         /\ task[j].providerCalls = FailedAt(called)

C18_Witness ==
  \E j \in JobIds :
    /\ jobs[j].status = "completed"
    /\ task[j].providerCalls = 18
    /\ "faqs_cta" \in DOMAIN jobs[j].results_json.sections[<<"neighborhood_", "Eastside">>]

\* the number a string of decimal digits writes
RECURSIVE DecimalValue(_)
DecimalValue(chars) ==
  IF chars = <<>> THEN 0
  ELSE 10 * DecimalValue(SubSeq(chars, 1, Len(chars) - 1))
       + (CHOOSE d \in 0..9 : Digits(d) = <<chars[Len(chars)]>>)

\* the word count a section reports; 0 for a section that is absent or
\* reports none
ReportedWordCount(m, key) ==
  IF key \in DOMAIN m /\ "wordCount" \in DOMAIN m[key]
  THEN IF m[key].wordCount.type = "number" THEN m[key].wordCount.num
       ELSE DecimalValue(m[key].wordCount.str)
  ELSE 0

\* the sum of the word counts the sections of a scope report
MainSum(sections) ==
    ReportedWordCount(ScopeOf(sections, <<"main">>), "hero_services")
  + ReportedWordCount(ScopeOf(sections, <<"main">>), "areas_whychoose")
  + ReportedWordCount(ScopeOf(sections, <<"main">>), "pricing_process")
  + ReportedWordCount(ScopeOf(sections, <<"main">>), "faqs_part1")
  + ReportedWordCount(ScopeOf(sections, <<"main">>), "faqs_part2")
  + ReportedWordCount(ScopeOf(sections, <<"main">>), "testimonials_cta")

NeighborhoodSum(sections, neighborhood) ==
    ReportedWordCount(ScopeOf(sections, <<"neighborhood_", neighborhood>>), "intro_projects")
  + ReportedWordCount(ScopeOf(sections, <<"neighborhood_", neighborhood>>), "service_details")
  + ReportedWordCount(ScopeOf(sections, <<"neighborhood_", neighborhood>>), "faqs_cta")

\* the assembler has returned
Assembled == call.fn = "assemblePagesFromSections" /\ call.done

\* every word count of the sections map is a number
AllNumbers(sections) ==
  \A scope \in DOMAIN sections : \A key \in DOMAIN sections[scope] :
    "wordCount" \in DOMAIN sections[scope][key] =>
      sections[scope][key].wordCount.type = "number"

\* C19: the word count of the main page is the sum of the word counts of
\* the main sections that are present, an absent section counting 0, and the
\* word count of each neighborhood page is the same sum over the three
\* sections of its neighborhood; main sections that report 1200, 1000, 700,
\* 1000, 1000 and 500 give 5400
C19_WordCountIsSum ==
  Assembled =>
    /\ call.result[1].wordCount = JSNumber(MainSum(call.arg))
    /\ \A i \in 1..Len(neighborhoods) :
         call.result[i + 1].wordCount = JSNumber(NeighborhoodSum(call.arg, neighborhoods[i]))
    /\ call.arg = Put(EmptyObject, <<"main">>, ScopeFrom(FullOver(mainWordCounts))) =>
         call.result[1].wordCount = JSNumber(5400)

\* the same sums, for the sections maps whose word counts are all numbers
C19_SumOfNumbers ==
  (Assembled /\ AllNumbers(call.arg)) => C19_WordCountIsSum

\* a generator has returned or thrown
Extracted == call.fn \in {"generateMainSection", "generateNeighborhoodSection"} /\ call.done

\* the text has a "{" that is followed later by a "}"
HasBraces(t) == \E p \in 1..Len(t) : \E q \in (p + 1)..Len(t) : t[p] = "{" /\ t[q] = "}"

\* the text from its first "{" to its last "}"
FirstToLast(t) ==
  SubSeq(t, MinOf({ p \in 1..Len(t) : t[p] = "{" }), MaxOf({ q \in 1..Len(t) : t[q] = "}" }))

\* the other generator on the same answer
OtherGenerator(fn, t) ==
  IF fn = "generateMainSection"
  THEN generateNeighborhoodSection([kind |-> "text", text |-> t])
  ELSE generateMainSection([kind |-> "text", text |-> t])

\* C20: the extraction parses exactly the span from the first "{" of the
\* text to its last "}"; it fails with 'No JSON in response' when no "{" of
\* the text is followed later by a "}", and with a parse error when the
\* span is not well-formed; both generators extract by the same rule
C20_ExtractionRule ==
  Extracted =>
    /\ ~HasBraces(call.arg) =>
         /\ ~call.result.ok
         /\ call.result.message = "No JSON in response"
    /\ HasBraces(call.arg) =>
         /\ call.result = JSONParse(FirstToLast(call.arg))
         /\ call.result.ok <=> WellFormed(FirstToLast(call.arg))
         /\ ~WellFormed(FirstToLast(call.arg)) => call.result.message = "SyntaxError"
    /\ call.result = OtherGenerator(call.fn, call.arg)

C20_Witness ==
  /\ Extracted
  /\ call.arg = <<"x", "{", "w", "}">>
  /\ call.result.ok
  /\ call.result.value = [content |-> "text", wordCount |-> JSNumber(1)]

====
